---- MODULE Spec2Model ----
(***************************************************************************)
(* Model of the ARB translation action (src/index.js): run(),              *)
(* translateToTarget(), translateBatch(), chunkArray().                    *)
(*                                                                         *)
(* A JSON object is a sequence of entries [key, val] with distinct keys,   *)
(* in the object's own iteration order.  A key is the text made of `at`    *)
(* leading '@' characters followed by `name` ('@@locale' is at = 2,        *)
(* name = "locale").  A JSON value is a record that carries its JSON type  *)
(* `t` and its provenance: a value read from the source file (by =         *)
(* "source"), the target language code written by the rebuild (by =        *)
(* "code") or element `pos` of the provider's response of kind `resp` to   *)
(* the call for batch `batch` of language `lang` (by = "provider").        *)
(***************************************************************************)
EXTENDS Integers, Sequences, FiniteSets, TLC

\* ---------------------------------------------------------------- bounds
MaxBatches == 2
\* longest array handed to chunkArray on its own
MaxLen == 120

\* ------------------------------------------------------ program constants
BATCH_SIZE == 50
MAX_RETRIES == 3
RETRY_DELAY == 2000
BATCH_PAUSE == 500
LANG_PAUSE == 1000

\* ------------------------------------------------------------ JSON values
Key(at, name) == [at |-> at, name |-> name]
LOCALE == Key(2, "locale")

SrcVal(t, id) ==
  [t |-> t, by |-> "source", lang |-> <<>>, batch |-> 0, resp |-> "", pos |-> id]
LangVal(L) ==
  [t |-> "string", by |-> "code", lang |-> L, batch |-> 0, resp |-> "", pos |-> 0]
ProvVal(t, L, b, kind, j) ==
  [t |-> t, by |-> "provider", lang |-> L, batch |-> b, resp |-> kind, pos |-> j]
UNDEFINED ==
  [t |-> "undefined", by |-> "", lang |-> <<>>, batch |-> 0, resp |-> "", pos |-> 0]

Entry(k, v) == [key |-> k, val |-> v]

Min(a, b) == IF a < b THEN a ELSE b

\* typeof v === 'string'
IsString(v) == v.t = "string"

\* Object.keys(obj), Object.values(obj)
ObjectKeys(obj) == [i \in 1..Len(obj) |-> obj[i].key]
ObjectValues(obj) == [i \in 1..Len(obj) |-> obj[i].val]
HasKey(obj, k) == \E i \in 1..Len(obj) : obj[i].key = k

\* obj[k]
Get(obj, k) ==
  IF HasKey(obj, k)
  THEN obj[CHOOSE i \in 1..Len(obj) : obj[i].key = k].val
  ELSE UNDEFINED

\* obj[k] = v : an existing key keeps its place, a new key goes last
SetProp(obj, k, v) ==
  IF HasKey(obj, k)
  THEN [obj EXCEPT ![CHOOSE i \in 1..Len(obj) : obj[i].key = k] = Entry(k, v)]
  ELSE Append(obj, Entry(k, v))

\* array[index] with a 0-based index; out of range reads undefined
At(array, index) ==
  IF index >= 0 /\ index < Len(array) THEN array[index + 1] ELSE UNDEFINED

\* const originalValues = Object.values(arbData).filter(v => typeof v === 'string')
ExtractValues(obj) == SelectSeq(ObjectValues(obj), IsString)
\* const originalKeys = Object.keys(arbData).filter(k => typeof arbData[k] === 'string')
ExtractKeys(obj) == SelectSeq(ObjectKeys(obj), LAMBDA k : IsString(Get(obj, k)))

\* array.slice(s, e), 0-based, e exclusive and clipped to the length
\* variant of Slice: array.slice(s, e - 1), the end index one too small
SliceShort(array, s, e) == SubSeq(array, s + 1, Min(e - 1, Len(array)))

Slice(array, s, e) == SubSeq(array, s + 1, Min(e, Len(array)))

RECURSIVE chunkLoop(_, _, _, _)
chunkLoop(array, size, i, chunks) ==
  IF i < Len(array)
  THEN chunkLoop(array, size, i + size, Append(chunks, Slice(array, i, i + size)))
  ELSE chunks

\* variant of chunkArray: an empty array gives one empty chunk
chunkArrayAtLeastOne(array, size) ==
  IF array = <<>> THEN << <<>> >> ELSE chunkLoop(array, size, 0, <<>>)

chunkArray(array, size) == chunkLoop(array, size, 0, <<>>)

\* JSON.stringify(obj, null, 2): a property whose value is undefined is left out
Stringify(obj) == SelectSeq(obj, LAMBDA e : e.val.t # "undefined")

\* variant of RebuildStep: the rebuild of the first revision of the program,
\* without the special case of the locale tag
RebuildStepNoLocale(newArb, key, index, translations, targetLangCode) ==
  SetProp(newArb, key, At(translations, index))

\* originalKeys.forEach((key, index) => { ... }) of translateToTarget
RebuildStep(newArb, key, index, translations, targetLangCode) ==
  IF key = LOCALE
  THEN SetProp(newArb, key, LangVal(targetLangCode))
  ELSE SetProp(newArb, key, At(translations, index))

\* the calls of the callback for the indices lo .. hi - 1, in index order
\* (the range is halved, and the first half evaluated before the second
\* is entered, so that the evaluation stays shallow)
RECURSIVE RebuildRange(_, _, _, _, _, _)
RebuildRange(newArb, keys, lo, hi, translations, targetLangCode) ==
  IF hi <= lo THEN newArb
  ELSE IF hi = lo + 1
  THEN RebuildStep(newArb, keys[lo + 1], lo, translations, targetLangCode)
  ELSE LET mid == (lo + hi) \div 2
           left == RebuildRange(newArb, keys, lo, mid, translations, targetLangCode)
       IN IF Len(left) >= 0
          THEN RebuildRange(left, keys, mid, hi, translations, targetLangCode)
          ELSE left

\* variant of Rebuild: const newArb = {} instead of the copy of arbData
RebuildFromEmpty(data, keys, translations, targetLangCode) ==
  RebuildRange(<<>>, keys, 0, Len(keys), translations, targetLangCode)

\* const newArb = { ...arbData }; originalKeys.forEach(...)
Rebuild(data, keys, translations, targetLangCode) ==
  RebuildRange(data, keys, 0, Len(keys), translations, targetLangCode)

\* ------------------------------------------------ comma-separated inputs
\* An input text is a sequence of atoms: "," and the white space characters
\* are atoms of their own, any other atom is a run of characters free of
\* both.
\* The WhiteSpace and LineTerminator characters of ECMAScript, which
\* String.prototype.trim strips: TAB, LF, CR, FF, SP, VT, NBSP, U+1680,
\* U+FEFF, U+2000..U+200A, U+2028, U+2029, U+202F, U+205F, U+3000 (the
\* characters from U+2000 on are written by their code point)
WhiteSpace ==
  {"\t", "\n", "\r", "\f", " ", "",
   " ", " ", "﻿", "U+2000", "U+2001", "U+2002",
   "U+2003", "U+2004", "U+2005", "U+2006", "U+2007", "U+2008",
   "U+2009", "U+200A", "U+2028", "U+2029", "U+202F", "U+205F",
   "U+3000"}

RECURSIVE SplitLoop(_, _, _)
SplitLoop(text, cur, acc) ==
  IF text = <<>> THEN Append(acc, cur)
  ELSE IF Head(text) = ","
       THEN SplitLoop(Tail(text), <<>>, Append(acc, cur))
       ELSE SplitLoop(Tail(text), Append(cur, Head(text)), acc)

\* text.split(',')
Split(text) == SplitLoop(text, <<>>, <<>>)

RECURSIVE TrimStart(_)
TrimStart(s) ==
  IF s # <<>> /\ Head(s) \in WhiteSpace THEN TrimStart(Tail(s)) ELSE s

RECURSIVE TrimEnd(_)
TrimEnd(s) ==
  IF s # <<>> /\ s[Len(s)] \in WhiteSpace THEN TrimEnd(SubSeq(s, 1, Len(s) - 1)) ELSE s

\* s.trim()
Trim(s) == TrimEnd(TrimStart(s))

\* input.split(',').map(s => s.trim())
SplitTrim(text) == LET parts == Split(text) IN [i \in 1..Len(parts) |-> Trim(parts[i])]


\* ------------------------------------------------------------- provider
\* What one axios.post attempt can bring back.  thrown = "network": the
\* request fails (transport, timeout, non-2xx); "parse": the response text
\* is not JSON after the code fence is stripped; "": the text parses to an
\* array (isArray) of `elems`, or to a value that is not an array, of which
\* `length` is what reading its length property gives (-1: undefined) and
\* `isNull` tells that the read throws a TypeError.
\* The kinds of parsed answers: "ok" is an array of as many strings as the
\* batch has, "mixed" is such an array whose first
\* element is a number, "short" and "long" have one element less and one
\* more than the batch, "notarray" is a JSON object without a length,
\* "null" is the JSON null, "string" is a JSON string of as many characters
\* as the batch has strings (or an object with such a length property).
NotArrays == {"notarray", "null", "string"}

Thrown(why) ==
  [thrown |-> why, isArray |-> FALSE, isNull |-> FALSE, length |-> 0 - 1,
   elems |-> <<>>, kind |-> why]

ResponseElems(kind, L, b, n) ==
  LET len == CASE kind = "short" -> n - 1
               [] kind = "long" -> n + 1
               [] kind \in NotArrays -> 0
               [] OTHER -> n
  IN [j \in 1..len |->
        ProvVal(IF kind = "mixed" /\ j = 1 THEN "number" ELSE "string", L, b, kind, j)]

Parsed(kind, L, b, n) ==
  [thrown |-> "", isArray |-> kind \notin NotArrays,
   isNull |-> kind = "null",
   length |-> CASE kind = "notarray" -> 0 - 1
                [] kind = "null" -> 0 - 1
                [] kind = "string" -> n
                [] OTHER -> Len(ResponseElems(kind, L, b, n)),
   elems |-> ResponseElems(kind, L, b, n), kind |-> kind]

Responses(req) ==
  {Thrown("network"), Thrown("parse")}
  \cup {Parsed(k, req.lang, req.batchNumber, Len(req.batch)) :
          k \in {"ok", "mixed", "short", "long"} \cup NotArrays}

\* ---------------------------------------------------------------- errors
NoCause == [kind |-> "", expected |-> 0, got |-> 0]
Cause(kind, expected, got) == [kind |-> kind, expected |-> expected, got |-> got]
NoError == [kind |-> "", batchNumber |-> 0, totalBatches |-> 0, cause |-> NoCause]
Error(kind, a, b) == [kind |-> kind, batchNumber |-> a, totalBatches |-> b, cause |-> NoCause]
\* `[Batch n/total] Failed after 3 retries: ${error.message}`
ExhaustedError(bn, total, cause) ==
  [kind |-> "exhausted", batchNumber |-> bn, totalBatches |-> total, cause |-> cause]

\* variant of TryBody: the length of the array is not compared with the batch
TryBodyNoLength(resp, batch) ==
  IF resp.thrown # ""
  THEN [ok |-> FALSE, value |-> <<>>, cause |-> Cause(resp.thrown, 0, 0)]
  ELSE IF ~resp.isArray
       THEN [ok |-> FALSE, value |-> <<>>,
             cause |-> IF resp.isNull THEN Cause("typeError", 0, 0)
                       ELSE Cause("shape", Len(batch), resp.length)]
       ELSE [ok |-> TRUE, value |-> resp.elems, cause |-> NoCause]

\* the try block of translateBatch after the response came back:
\* parseJsonResponse, then the Array.isArray / length check; the message of
\* the error reads translatedValues.length, which throws a TypeError of
\* its own on null
TryBody(resp, batch) ==
  IF resp.thrown # ""
  THEN [ok |-> FALSE, value |-> <<>>, cause |-> Cause(resp.thrown, 0, 0)]
  ELSE IF ~resp.isArray \/ resp.length # Len(batch)
       THEN [ok |-> FALSE, value |-> <<>>,
             cause |-> IF resp.isNull THEN Cause("typeError", 0, 0)
                       ELSE Cause("shape", Len(batch), resp.length)]
       ELSE [ok |-> TRUE, value |-> resp.elems, cause |-> NoCause]

\* ----------------------------------------------------------------- state
VARIABLES
  sourceFile,          \* INPUT_SOURCE_FILE: [present, exists, parses]
  targetFileInput,     \* INPUT_TARGET_FILE: [present, text]
  targetLangCodeInput, \* INPUT_TARGET_LANG_CODE: [present, text]
  apiKey,              \* INPUT_GEMINI_API_KEY: [present]
  sourceDoc,           \* the JSON object stored in the source file
  disk,                \* the directories of the disk: [cwd, dirs, denied]
  pc,                  \* where the run is suspended
  arbData, originalValues, originalKeys, targetFiles, targetLangCodes,
  ti,                  \* loop index i of run()
  batches, allTranslations,
  bi,                  \* loop index i of translateToTarget()
  request,             \* the provider call in flight
  retryCount,
  timer,               \* the sleep in progress, in ms (0: none)
  fs,                  \* the files written on the disk: location -> content
  exitCode, error,
  waits,               \* history: backoff delays of the current batch
  calls,               \* history: provider calls made for the current batch
  lastFailure,         \* history: cause of the latest failed attempt
  accepted,            \* history: the accepted response of each batch of the current target
  called,              \* history: targets for which a provider call was made
  pauses,              \* history: the pauses between batches of the current target
  writeLog             \* history: the writes of target files, in order

env == <<sourceFile, targetFileInput, targetLangCodeInput, apiKey, sourceDoc, disk>>
prog == <<pc, arbData, originalValues, originalKeys, targetFiles, targetLangCodes,
          ti, batches, allTranslations, bi, request, retryCount, timer, fs,
          exitCode, error, waits, calls, lastFailure, accepted, called, pauses, writeLog>>
vars == <<env, prog>>

NoRequest ==
  [batch |-> <<>>, lang |-> <<>>, batchNumber |-> 0, totalBatches |-> 0, keyPresent |-> FALSE]

\* the program state as one record, so that the synchronous code between
\* two awaits composes as a function from state to state
Cur ==
  [pc |-> pc, arbData |-> arbData, originalValues |-> originalValues,
   originalKeys |-> originalKeys, targetFiles |-> targetFiles,
   targetLangCodes |-> targetLangCodes, ti |-> ti, batches |-> batches,
   allTranslations |-> allTranslations, bi |-> bi, request |-> request,
   retryCount |-> retryCount, timer |-> timer, fs |-> fs, exitCode |-> exitCode,
   error |-> error, waits |-> waits, calls |-> calls, lastFailure |-> lastFailure,
   accepted |-> accepted, called |-> called,
   pauses |-> pauses, writeLog |-> writeLog]

Commit(s) ==
  /\ pc' = s.pc /\ arbData' = s.arbData /\ originalValues' = s.originalValues
  /\ originalKeys' = s.originalKeys /\ targetFiles' = s.targetFiles
  /\ targetLangCodes' = s.targetLangCodes /\ ti' = s.ti /\ batches' = s.batches
  /\ allTranslations' = s.allTranslations /\ bi' = s.bi /\ request' = s.request
  /\ retryCount' = s.retryCount /\ timer' = s.timer /\ fs' = s.fs
  /\ exitCode' = s.exitCode /\ error' = s.error /\ waits' = s.waits
  /\ calls' = s.calls /\ lastFailure' = s.lastFailure /\ accepted' = s.accepted
  /\ called' = s.called /\ pauses' = s.pauses /\ writeLog' = s.writeLog
  /\ UNCHANGED env

\* ------------------------------------------------------------ operations
\* fs.writeFileSync(file, content) opens the path for writing, creating
\* the file when it is not there, and throws when the path cannot be
\* opened.  A file name is a text of atoms in which "/" is an atom of its
\* own.  A location on the disk is the sequence of components from the
\* root, a component being a run of atoms.  The disk `d` is the working
\* directory d.cwd, the directories that exist d.dirs, and d.denied, the
\* directories in which no file may be created and the files that may not
\* be written.  `files` maps the location of every file to its content.
\* The limits of open(2): the bytes of one component, and the bytes of the
\* whole name with its terminator.
NAME_MAX == 255
PATH_MAX == 4096

\* the atoms that are one character of two, and of three, bytes in UTF-8;
\* every other atom is a run of ASCII characters
TwoBytes == {" ", "é"}
ThreeBytes ==
  {" ", "﻿", "U+2000", "U+2001", "U+2002", "U+2003", "U+2004", "U+2005",
   "U+2006", "U+2007", "U+2008", "U+2009", "U+200A", "U+2028", "U+2029",
   "U+202F", "U+205F", "U+3000"}
Utf8Length(atom) ==
  IF atom \in TwoBytes THEN 2 ELSE IF atom \in ThreeBytes THEN 3 ELSE Len(atom)

\* the bytes of a text of atoms
RECURSIVE ByteLength(_)
ByteLength(text) ==
  IF text = <<>> THEN 0 ELSE Utf8Length(Head(text)) + ByteLength(Tail(text))

RECURSIVE PathSplitLoop(_, _, _)
PathSplitLoop(text, cur, acc) ==
  IF text = <<>> THEN Append(acc, cur)
  ELSE IF Head(text) = "/"
       THEN PathSplitLoop(Tail(text), <<>>, Append(acc, cur))
       ELSE PathSplitLoop(Tail(text), Append(cur, Head(text)), acc)

\* the components of a file name
PathSplit(name) == PathSplitLoop(name, <<>>, <<>>)

ROOT == <<>>
DOT == <<".">>
DOTDOT == <<"..">>
Parent(p) == IF p = <<>> THEN <<>> ELSE SubSeq(p, 1, Len(p) - 1)

\* the components without the empty ones a trailing "/" leaves at the end
RECURSIVE StripSlash(_)
StripSlash(comps) ==
  IF comps # <<>> /\ comps[Len(comps)] = <<>>
  THEN StripSlash(SubSeq(comps, 1, Len(comps) - 1))
  ELSE comps

\* the directory reached from directory cur through the components comps
RECURSIVE WalkDirs(_, _, _, _)
WalkDirs(d, files, cur, comps) ==
  IF comps = <<>> THEN [error |-> "", path |-> cur]
  ELSE LET c == Head(comps)
           next == Append(cur, c)
       IN IF c = <<>> \/ c = DOT THEN WalkDirs(d, files, cur, Tail(comps))
          ELSE IF c = DOTDOT THEN WalkDirs(d, files, Parent(cur), Tail(comps))
          ELSE IF ByteLength(c) > NAME_MAX
               THEN [error |-> "ENAMETOOLONG", path |-> next]
          ELSE IF next \in d.dirs THEN WalkDirs(d, files, next, Tail(comps))
          ELSE IF next \in DOMAIN files THEN [error |-> "ENOTDIR", path |-> next]
          ELSE [error |-> "ENOENT", path |-> next]

\* open(name, O_WRONLY | O_CREAT | O_TRUNC): the location of the file, or
\* the error.  The length of the name is tested before the walk, the walk
\* through the directories comes before the last component, and of the
\* last component a trailing "/" is refused before the component is
\* looked up.
OpenForWrite(d, files, name) ==
  IF name = <<>> THEN [error |-> "ENOENT", path |-> <<>>]
  ELSE IF ByteLength(name) >= PATH_MAX
       THEN [error |-> "ENAMETOOLONG", path |-> <<>>]
  ELSE LET comps == PathSplit(name)
           base == StripSlash(comps)
           slash == Len(base) < Len(comps)
           start == IF comps[1] = <<>> /\ Len(comps) > 1 THEN ROOT ELSE d.cwd
       IN IF base = <<>> THEN [error |-> "EISDIR", path |-> ROOT]
          ELSE LET last == base[Len(base)]
                   dir == WalkDirs(d, files, start, SubSeq(base, 1, Len(base) - 1))
                   target == Append(dir.path, last)
               IN IF dir.error # "" THEN dir
                  ELSE IF last = DOT THEN [error |-> "EISDIR", path |-> dir.path]
                  ELSE IF last = DOTDOT
                       THEN [error |-> "EISDIR", path |-> Parent(dir.path)]
                  ELSE IF slash THEN [error |-> "EISDIR", path |-> target]
                  ELSE IF ByteLength(last) > NAME_MAX
                       THEN [error |-> "ENAMETOOLONG", path |-> target]
                  ELSE IF target \in d.dirs THEN [error |-> "EISDIR", path |-> target]
                  ELSE IF target \in d.denied
                          \/ (target \notin DOMAIN files /\ dir.path \in d.denied)
                       THEN [error |-> "EACCES", path |-> target]
                  ELSE [error |-> "", path |-> target]

\* fs.writeFileSync(file, content)
WriteFile(d, files, file, content) ==
  LET o == OpenForWrite(d, files, file)
  IN IF o.error # ""
     THEN [error |-> o.error, path |-> o.path, files |-> files]
     ELSE [error |-> "", path |-> o.path,
           files |-> [f \in (DOMAIN files) \cup {o.path} |->
                        IF f = o.path THEN content ELSE files[f]]]

\* catch (error) of run(): console.error, process.exit(1)
Exit1(s, e) == [s EXCEPT !.pc = "exit", !.exitCode = 1, !.error = e, !.timer = 0]

\* sleep(ms): the run is suspended at `at` until the timer fires
Sleep(s, at, ms) == [s EXCEPT !.pc = at, !.timer = ms]

\* translateBatch up to its await: the request is sent
SendRequest(s, batch, bn, total, rc) ==
  [s EXCEPT !.pc = "call",
            !.timer = 0,
            !.retryCount = rc,
            !.request = [batch |-> batch, lang |-> s.targetLangCodes[s.ti + 1],
                         batchNumber |-> bn, totalBatches |-> total,
                         keyPresent |-> apiKey.present],
            !.waits = IF rc = 0 THEN <<>> ELSE s.waits,
            !.calls = IF rc = 0 THEN 1 ELSE s.calls + 1,
            !.lastFailure = IF rc = 0 THEN NoCause ELSE s.lastFailure,
            !.called = s.called \cup {s.ti}]

\* variant of FinishTarget: const newArb = arbData, so that the rebuild
\* assigns into the parsed source document itself
FinishTargetAliased(s) ==
  LET targetFile == s.targetFiles[s.ti + 1]
      targetLangCode == s.targetLangCodes[s.ti + 1]
      newArb == Rebuild(s.arbData, s.originalKeys, s.allTranslations, targetLangCode)
      content == Stringify(newArb)
      written == WriteFile(disk, s.fs, targetFile, content)
      w == [s EXCEPT !.arbData = newArb,
                     !.fs = written.files,
                     !.writeLog = Append(s.writeLog,
                                    [ti |-> s.ti, file |-> targetFile,
                                     path |-> written.path,
                                     lang |-> targetLangCode,
                                     accepted |-> s.accepted,
                                     pauses |-> s.pauses, doc |-> content])]
  IN IF written.error # ""
     THEN Exit1([s EXCEPT !.arbData = newArb], Error("writeFailed", s.ti, 0))
     ELSE IF s.ti < Len(s.targetFiles) - 1
     THEN Sleep(w, "langPause", LANG_PAUSE)
     ELSE [w EXCEPT !.pc = "done", !.exitCode = 0, !.timer = 0]

\* translateToTarget after its loop, and run() after translateToTarget
\* returned: rebuild, write, then pause before the next language or finish
FinishTarget(s) ==
  LET targetFile == s.targetFiles[s.ti + 1]
      targetLangCode == s.targetLangCodes[s.ti + 1]
      newArb == Rebuild(s.arbData, s.originalKeys, s.allTranslations, targetLangCode)
      content == Stringify(newArb)
      written == WriteFile(disk, s.fs, targetFile, content)
      w == [s EXCEPT !.fs = written.files,
                     !.writeLog = Append(s.writeLog,
                                    [ti |-> s.ti, file |-> targetFile,
                                     path |-> written.path,
                                     lang |-> targetLangCode,
                                     accepted |-> s.accepted,
                                     pauses |-> s.pauses, doc |-> content])]
  IN IF written.error # ""
     THEN Exit1(s, Error("writeFailed", s.ti, 0))
     ELSE IF s.ti < Len(s.targetFiles) - 1
     THEN Sleep(w, "langPause", LANG_PAUSE)
     ELSE [w EXCEPT !.pc = "done", !.exitCode = 0, !.timer = 0]

\* translateToTarget for target index t, up to its first await
EnterTarget(s, t) ==
  LET bs == chunkArray(s.originalValues, BATCH_SIZE)
      e == [s EXCEPT !.ti = t, !.batches = bs, !.bi = 0,
                     !.allTranslations = <<>>, !.accepted = <<>>,
                     !.pauses = <<>>]
  IN IF 0 < Len(bs)
     THEN SendRequest(e, bs[1], 1, Len(bs), 0)
     ELSE FinishTarget(e)

\* variant of BatchDone: allTranslations.unshift(...translatedBatch)
BatchDonePrepend(s, translatedBatch, resp) ==
  LET a == [s EXCEPT !.allTranslations = translatedBatch \o s.allTranslations,
                     !.accepted = Append(s.accepted, resp.kind),
                     !.request = NoRequest]
  IN IF s.bi < Len(s.batches) - 1
     THEN Sleep([a EXCEPT !.pauses = Append(s.pauses, BATCH_PAUSE)],
                "batchPause", BATCH_PAUSE)
     ELSE FinishTarget(a)

\* variant of BatchDone: the pause grows with the retries the batch needed,
\* sleep(500 * (retryCount + 1))
BatchDonePauseScaled(s, translatedBatch, resp) ==
  LET a == [s EXCEPT !.allTranslations = s.allTranslations \o translatedBatch,
                     !.accepted = Append(s.accepted, resp.kind),
                     !.request = NoRequest]
      ms == BATCH_PAUSE * (s.retryCount + 1)
  IN IF s.bi < Len(s.batches) - 1
     THEN Sleep([a EXCEPT !.pauses = Append(s.pauses, ms)], "batchPause", ms)
     ELSE FinishTarget(a)

\* translateToTarget resumed with the value translateBatch returned
BatchDone(s, translatedBatch, resp) ==
  LET a == [s EXCEPT !.allTranslations = s.allTranslations \o translatedBatch,
                     !.accepted = Append(s.accepted, resp.kind),
                     !.request = NoRequest]
  IN IF s.bi < Len(s.batches) - 1
     THEN Sleep([a EXCEPT !.pauses = Append(s.pauses, BATCH_PAUSE)],
                "batchPause", BATCH_PAUSE)
     ELSE FinishTarget(a)

\* variant of BatchFailed: the delay doubles, RETRY_DELAY * 2 ** retryCount
BatchFailedExponential(s, cause) ==
  LET f == [s EXCEPT !.lastFailure = cause, !.request = NoRequest]
  IN IF s.retryCount < MAX_RETRIES
     THEN LET delay == RETRY_DELAY * (2 ^ s.retryCount)
          IN Sleep([f EXCEPT !.waits = Append(s.waits, delay)], "backoff", delay)
     ELSE Exit1(f, ExhaustedError(s.bi + 1, Len(s.batches), cause))

\* variant of BatchFailed: retryCount <= MAX_RETRIES
BatchFailedOneMore(s, cause) ==
  LET f == [s EXCEPT !.lastFailure = cause, !.request = NoRequest]
  IN IF s.retryCount <= MAX_RETRIES
     THEN LET delay == RETRY_DELAY * (s.retryCount + 1)
          IN Sleep([f EXCEPT !.waits = Append(s.waits, delay)], "backoff", delay)
     ELSE Exit1(f, ExhaustedError(s.bi + 1, Len(s.batches), cause))

\* variant of BatchFailed: an exhausted batch is logged and the target is
\* written with the translations gathered so far
BatchFailedPartial(s, cause) ==
  LET f == [s EXCEPT !.lastFailure = cause, !.request = NoRequest]
  IN IF s.retryCount < MAX_RETRIES
     THEN LET delay == RETRY_DELAY * (s.retryCount + 1)
          IN Sleep([f EXCEPT !.waits = Append(s.waits, delay)], "backoff", delay)
     ELSE FinishTarget([f EXCEPT !.error =
                          ExhaustedError(s.bi + 1, Len(s.batches), cause)])

\* variant of BatchFailed: the error of a target is caught per target and
\* the loop of run() goes on with the next target
BatchFailedIsolated(s, cause) ==
  LET f == [s EXCEPT !.lastFailure = cause, !.request = NoRequest]
      x == ExhaustedError(s.bi + 1, Len(s.batches), cause)
  IN IF s.retryCount < MAX_RETRIES
     THEN LET delay == RETRY_DELAY * (s.retryCount + 1)
          IN Sleep([f EXCEPT !.waits = Append(s.waits, delay)], "backoff", delay)
     ELSE IF s.ti < Len(s.targetFiles) - 1
          THEN Sleep([f EXCEPT !.error = x], "langPause", LANG_PAUSE)
          ELSE Exit1(f, x)

\* catch (error) of translateBatch
\* variant of BatchFailed: the retry is started without awaiting the sleep
BatchFailedNoAwait(s, cause) ==
  LET f == [s EXCEPT !.lastFailure = cause, !.request = NoRequest]
  IN IF s.retryCount < MAX_RETRIES
     THEN LET delay == RETRY_DELAY * (s.retryCount + 1)
          IN SendRequest([f EXCEPT !.waits = Append(s.waits, delay)],
                         s.batches[s.bi + 1], s.bi + 1, Len(s.batches),
                         s.retryCount + 1)
     ELSE Exit1(f, ExhaustedError(s.bi + 1, Len(s.batches), cause))

BatchFailed(s, cause) ==
  LET f == [s EXCEPT !.lastFailure = cause, !.request = NoRequest]
  IN IF s.retryCount < MAX_RETRIES
     THEN LET delay == RETRY_DELAY * (s.retryCount + 1)
          IN Sleep([f EXCEPT !.waits = Append(s.waits, delay)], "backoff", delay)
     ELSE Exit1(f, ExhaustedError(s.bi + 1, Len(s.batches), cause))

\* variant of RunBody: targetFiles.length > targetLangCodes.length
RunBodyLenient(s) ==
  IF ~(sourceFile.present /\ sourceFile.exists)
  THEN Exit1(s, Error("sourceNotFound", 0, 0))
  ELSE IF ~targetFileInput.present \/ ~targetLangCodeInput.present
  THEN Exit1(s, Error("typeError", 0, 0))
  ELSE LET files == SplitTrim(targetFileInput.text)
           codes == SplitTrim(targetLangCodeInput.text)
       IN IF Len(files) > Len(codes)
          THEN Exit1(s, Error("mismatch", Len(files), Len(codes)))
          ELSE IF ~sourceFile.parses
          THEN Exit1(s, Error("sourceUnreadable", 0, 0))
          ELSE EnterTarget([s EXCEPT !.targetFiles = files,
                                     !.targetLangCodes = codes,
                                     !.arbData = sourceDoc,
                                     !.originalValues = ExtractValues(sourceDoc),
                                     !.originalKeys = ExtractKeys(sourceDoc)], 0)

\* run() from its start to its first await
RunBody(s) ==
  IF ~(sourceFile.present /\ sourceFile.exists)
  THEN Exit1(s, Error("sourceNotFound", 0, 0))
  ELSE IF ~targetFileInput.present \/ ~targetLangCodeInput.present
  THEN Exit1(s, Error("typeError", 0, 0))
  ELSE LET files == SplitTrim(targetFileInput.text)
           codes == SplitTrim(targetLangCodeInput.text)
       IN IF Len(files) # Len(codes)
          THEN Exit1(s, Error("mismatch", Len(files), Len(codes)))
          ELSE IF ~sourceFile.parses
          THEN Exit1(s, Error("sourceUnreadable", 0, 0))
          ELSE EnterTarget([s EXCEPT !.targetFiles = files,
                                     !.targetLangCodes = codes,
                                     !.arbData = sourceDoc,
                                     !.originalValues = ExtractValues(sourceDoc),
                                     !.originalKeys = ExtractKeys(sourceDoc)], 0)

\* ---------------------------------------------------------------- inputs
Str(id) == SrcVal("string", id)
Obj(id) == SrcVal("object", id)
Num(id) == SrcVal("number", id)

KeyName(i) == "k" \o ToString(i)

\* a document with n string entries, the locale tag first, and one
\* metadata object after the first message
GenDoc(n) ==
  <<Entry(LOCALE, Str(0)), Entry(Key(0, KeyName(1)), Str(1)),
    Entry(Key(1, KeyName(1)), Obj(1))>>
  \o [i \in 1..(n - 2) |-> Entry(Key(0, KeyName(i + 1)), Str(i + 1))]

SmallDocs ==
  { \* {"@@locale":"en","greeting":"Hello","@greeting":{...}}
    <<Entry(LOCALE, Str(0)), Entry(Key(0, "greeting"), Str(1)),
      Entry(Key(1, "greeting"), Obj(1))>>,
    \* {"greeting":"Hello","@note":"Draft","count":5,"bye":"Bye"}
    <<Entry(Key(0, "greeting"), Str(1)), Entry(Key(1, "note"), Str(2)),
      Entry(Key(0, "count"), Num(3)), Entry(Key(0, "bye"), Str(4))>>,
    \* {"@@locale":5,"greeting":"Hello"}
    <<Entry(LOCALE, Num(0)), Entry(Key(0, "greeting"), Str(1))>>,
    \* {"@@locale":{...},"greeting":"Hello"}
    <<Entry(LOCALE, Obj(0)), Entry(Key(0, "greeting"), Str(1))>>,
    \* {"@greeting":{...},"count":5}
    <<Entry(Key(1, "greeting"), Obj(1)), Entry(Key(0, "count"), Num(2))>>,
    \* {}
    <<>> }

\* documents of 2 .. MaxBatches batches, the last batch of 20 strings
LargeDocs == {GenDoc((k - 1) * BATCH_SIZE + 20) : k \in 2..MaxBatches}

TargetFileInputs ==
  { [present |-> FALSE, text |-> <<>>],
    [present |-> TRUE, text |-> <<"a.arb">>],
    [present |-> TRUE, text |-> <<"a.arb", ",", "\n", " ", "b.arb", "\n">>],
    [present |-> TRUE, text |-> <<"a.arb", ",">>],
    [present |-> TRUE, text |-> <<"nodir", "/", "a.arb">>],
    [present |-> TRUE, text |-> <<>>] }

TargetLangCodeInputs ==
  { [present |-> FALSE, text |-> <<>>],
    [present |-> TRUE, text |-> <<"fr">>],
    [present |-> TRUE, text |-> <<"\t", "fr", " ", ",", "es", " ">>],
    [present |-> TRUE, text |-> <<"fr", ",">>] }

\* parses: fs.readFileSync gives the text of a JSON object (not so for a
\* directory, or for a file that holds no JSON or the JSON null)
SourceFiles ==
  { [present |-> FALSE, exists |-> FALSE, parses |-> FALSE],
    [present |-> TRUE, exists |-> FALSE, parses |-> FALSE],
    [present |-> TRUE, exists |-> TRUE, parses |-> FALSE],
    [present |-> TRUE, exists |-> TRUE, parses |-> TRUE] }

ApiKeys == {[present |-> FALSE], [present |-> TRUE]}

\* the working directory /work, without and with a directory /work/out,
\* and a working directory in which no file may be created
CWD == << <<"work">> >>
PlainDisk == [cwd |-> CWD, dirs |-> {ROOT, CWD}, denied |-> {}]
OutDisk == [cwd |-> CWD, dirs |-> {ROOT, CWD, Append(CWD, <<"out">>)}, denied |-> {}]
DeniedDisk == [cwd |-> CWD, dirs |-> {ROOT, CWD}, denied |-> {CWD}]

Inputs(src, files, codes, key, doc) ==
  [sourceFile |-> src, targetFileInput |-> files, targetLangCodeInput |-> codes,
   apiKey |-> key, sourceDoc |-> doc, disk |-> PlainDisk]

\* a run of NAME_MAX - 1 bytes, and a name of n components of NAME_MAX
\* bytes, each followed by "/"
LongRun == "aaaaaaaaaaaaaaaaaaaaaaaaaaaaaaaaaaaaaaaaaaaaaaaaaaaaaaaaaaaaaaaaaaaaaaaaaaaaaaaaaaaaaaaaaaaaaaaaaaaaaaaaaaaaaaaaaaaaaaaaaaaaaaaaaaaaaaaaaaaaaaaaaaaaaaaaaaaaaaaaaaaaaaaaaaaaaaaaaaaaaaaaaaaaaaaaaaaaaaaaaaaaaaaaaaaaaaaaaaaaaaaaaaaaaaaaaaaaaaaaaaaaaaaaaaaaaa"
RECURSIVE LongPath(_)
LongPath(n) == IF n = 0 THEN <<>> ELSE <<LongRun, "a", "/">> \o LongPath(n - 1)

\* target files in a directory, one file under two names, names of
\* directories, a name from the root, and names at the limits of length
PathInputs ==
  { << <<LongRun, "a">>, <<"fr">> >>,
    << <<LongRun, "a", "b">>, <<"fr">> >>,
    << <<LongRun, "é">>, <<"fr">> >>,
    << <<"out", "/", LongRun, "a">>, <<"fr">> >>,
    << <<LongRun, "a", "b", "/", "a.arb">>, <<"fr">> >>,
    << <<LongRun, "a", "b", "/">>, <<"fr">> >>,
    << <<"a.arb", ",", "a.arb", "/", LongRun, "a", "b">>, <<"fr", ",", "es">> >>,
    << LongPath(16), <<"fr">> >>,
    << LongPath(15) \o <<LongRun, "a">>, <<"fr">> >> } \cup
  { << <<"out", "/", "fr.arb">>, <<"fr">> >>,
    << <<"lib", "/", "l10n", "/", "app_fr.arb">>, <<"fr">> >>,
    << <<"a.arb", ",", ".", "/", "a.arb">>, <<"fr", ",", "es">> >>,
    << <<"a.arb", ",", "out", "/", "..", "/", "a.arb">>, <<"fr", ",", "es">> >>,
    << <<"a.arb", ",", "a.arb", "/", "b.arb">>, <<"fr", ",", "es">> >>,
    << <<"a.arb", ",", "a.arb", "/">>, <<"fr", ",", "es">> >>,
    << <<".">>, <<"fr">> >>,
    << <<"out">>, <<"fr">> >>,
    << <<"a.arb", "/">>, <<"fr">> >>,
    << <<"/">>, <<"fr">> >>,
    << <<"/", "a.arb">>, <<"fr">> >>,
    << <<"..", "/", "a.arb">>, <<"fr">> >>,
    << <<"a.arb">>, <<"fr">> >> }

PathScenarios ==
  {[Inputs([present |-> TRUE, exists |-> TRUE, parses |-> TRUE],
           [present |-> TRUE, text |-> tc[1]], [present |-> TRUE, text |-> tc[2]],
           [present |-> TRUE], doc) EXCEPT !.disk = d] :
     tc \in PathInputs, d \in {PlainDisk, OutDisk, DeniedDisk},
     doc \in {<<Entry(LOCALE, Str(0)), Entry(Key(0, "greeting"), Str(1)),
                Entry(Key(1, "greeting"), Obj(1))>>,
              <<Entry(Key(1, "greeting"), Obj(1)), Entry(Key(0, "count"), Num(2))>>}}

\* the runs explored: every combination of inputs over the small documents,
\* the large documents with all inputs given, for one and for two targets,
\* and the target paths on the three disks
Scenarios ==
  {Inputs(src, files, codes, key, doc) :
     src \in SourceFiles, files \in TargetFileInputs,
     codes \in TargetLangCodeInputs, key \in ApiKeys, doc \in SmallDocs}
  \cup
  {Inputs([present |-> TRUE, exists |-> TRUE, parses |-> TRUE], tc[1], tc[2], [present |-> TRUE], doc) :
     tc \in { <<[present |-> TRUE, text |-> <<"a.arb">>],
                [present |-> TRUE, text |-> <<"fr">>]>>,
              <<[present |-> TRUE, text |-> <<"a.arb", ",", "\n", " ", "b.arb", "\n">>],
                [present |-> TRUE, text |-> <<"\t", "fr", " ", ",", "es", " ">>]>> },
     doc \in LargeDocs}
  \cup PathScenarios

\* ------------------------------------------------------------ the machine
Init ==
  /\ \E in \in Scenarios :
       /\ sourceFile = in.sourceFile
       /\ targetFileInput = in.targetFileInput
       /\ targetLangCodeInput = in.targetLangCodeInput
       /\ apiKey = in.apiKey
       /\ sourceDoc = in.sourceDoc
       /\ disk = in.disk
  /\ pc = "start"
  /\ arbData = <<>> /\ originalValues = <<>> /\ originalKeys = <<>>
  /\ targetFiles = <<>> /\ targetLangCodes = <<>>
  /\ ti = 0 /\ batches = <<>> /\ allTranslations = <<>> /\ bi = 0
  /\ request = NoRequest /\ retryCount = 0 /\ timer = 0
  /\ fs = <<>>
  /\ exitCode = 0 - 1 /\ error = NoError
  /\ waits = <<>> /\ calls = 0 /\ lastFailure = NoCause
  /\ accepted = <<>> /\ called = {} /\ pauses = <<>> /\ writeLog = <<>>

\* run() is started
Run ==
  /\ pc = "start"
  /\ Commit(RunBody(Cur))

\* the provider call in flight comes back
ProviderRespond ==
  /\ pc = "call"
  /\ \E resp \in Responses(request) :
       LET r == TryBody(resp, request.batch)
       IN Commit(IF r.ok THEN BatchDone(Cur, r.value, resp)
                 ELSE BatchFailed(Cur, r.cause))

\* variant of BackoffElapsed: translateBatch recurses with the same retryCount
BackoffElapsedSameCount ==
  /\ pc = "backoff"
  /\ Commit(SendRequest(Cur, batches[bi + 1], bi + 1, Len(batches), retryCount))

\* the backoff sleep is over: translateBatch recurses with retryCount + 1
BackoffElapsed ==
  /\ pc = "backoff"
  /\ Commit(SendRequest(Cur, batches[bi + 1], bi + 1, Len(batches), retryCount + 1))

\* the pause between two batches is over: the loop goes on with the next batch
BatchPauseElapsed ==
  /\ pc = "batchPause"
  /\ Commit(SendRequest([Cur EXCEPT !.bi = bi + 1],
                        batches[bi + 2], bi + 2, Len(batches), 0))

\* the pause between two languages is over: the loop goes on with the next target
LangPauseElapsed ==
  /\ pc = "langPause"
  /\ Commit(EnterTarget(Cur, ti + 1))

Next ==
  \/ Run
  \/ ProviderRespond
  \/ BackoffElapsed
  \/ BatchPauseElapsed
  \/ LangPauseElapsed

Spec == Init /\ [][Next]_vars

\* a run that is not over goes on: run() is called when the module is
\* loaded, a timer set by sleep() fires, the provider call in flight comes
\* back. Every step of Next is such a step and changes where the run is
\* suspended or which target it is at, and one is possible in every state
\* in which the run is not over.
Proceeds ==
  /\ pc \in {"start", "call", "backoff", "batchPause", "langPause"}
  /\ pc' \in {"call", "backoff", "batchPause", "langPause", "done", "exit"}
  /\ ti' \in {ti, ti + 1}

LiveSpec == Init /\ [][Next]_vars /\ WF_<<pc, ti>>(Proceeds)

\* ------------------------------------------------- chunkArray on its own
\* chunkArray(values, BATCH_SIZE) applied to an array of every length up to
\* MaxLen; the rest of the program state is idle
ChunkInit ==
  /\ sourceFile = [present |-> FALSE, exists |-> FALSE, parses |-> FALSE]
  /\ targetFileInput = [present |-> FALSE, text |-> <<>>]
  /\ targetLangCodeInput = [present |-> FALSE, text |-> <<>>]
  /\ apiKey = [present |-> FALSE]
  /\ sourceDoc = <<>>
  /\ disk = PlainDisk
  /\ pc = "chunk"
  /\ arbData = <<>> /\ originalKeys = <<>>
  /\ \E n \in 0..MaxLen : originalValues = [i \in 1..n |-> Str(i)]
  /\ targetFiles = <<>> /\ targetLangCodes = <<>>
  /\ ti = 0 /\ batches = <<>> /\ allTranslations = <<>> /\ bi = 0
  /\ request = NoRequest /\ retryCount = 0 /\ timer = 0
  /\ fs = <<>>
  /\ exitCode = 0 - 1 /\ error = NoError
  /\ waits = <<>> /\ calls = 0 /\ lastFailure = NoCause
  /\ accepted = <<>> /\ called = {} /\ pauses = <<>> /\ writeLog = <<>>

\* const batches = chunkArray(originalValues, BATCH_SIZE)
ChunkApply ==
  /\ pc = "chunk"
  /\ Commit([Cur EXCEPT !.batches = chunkArray(originalValues, BATCH_SIZE),
                        !.pc = "chunked"])

ChunkNext == ChunkApply

SpecChunk == ChunkInit /\ [][ChunkNext]_vars

TypeOK ==
  /\ pc \in {"start", "call", "backoff", "batchPause", "langPause", "done", "exit"}
  /\ retryCount \in 0..MAX_RETRIES

\* ------------------------------------------------------------ properties
Range(seq) == {seq[i] : i \in 1..Len(seq)}

\* what opening a target file name for writing gives now, and its location
Opened(name) == OpenForWrite(disk, fs, name)
PathOf(name) == Opened(name).path

\* write k is the last one at its location
IsLastWrite(k) ==
  \A j \in (k + 1)..Len(writeLog) : writeLog[j].path # writeLog[k].path

\* no file was written for target t (0-based)
NotWritten(t) == \A k \in 1..Len(writeLog) : writeLog[k].ti # t

\* the files on the disk are those the run wrote, each with the document
\* written to it last
DiskAsWritten ==
  /\ DOMAIN fs = {writeLog[k].path : k \in 1..Len(writeLog)}
  /\ \A k \in 1..Len(writeLog) :
       /\ writeLog[k].file = targetFiles[k]
       /\ IsLastWrite(k) => fs[writeLog[k].path] = writeLog[k].doc

\* the run got past its validation and extracted the source document
Extracted == targetFiles # <<>>

\* the run stopped on a batch that exhausted its retries
Exhausted == error.kind = "exhausted"

\* the length of batch b (1-based) of the extracted values
BatchLength(b) == Min(BATCH_SIZE, Len(originalValues) - (b - 1) * BATCH_SIZE)

\* the response accepted for batch b (1-based) of the target of write w
AcceptedResponse(w, b) ==
  ResponseElems(w.accepted[b], w.lang, b, BatchLength(b))

\* the positions of the string entries of the source document, in order
StringPositions ==
  SelectSeq([p \in 1..Len(sourceDoc) |-> p], LAMBDA p : IsString(sourceDoc[p].val))

\* doc[key], looked up first at the position the key has in the source
Lookup(doc, key, p) ==
  IF p <= Len(doc) /\ doc[p].key = key THEN doc[p].val ELSE Get(doc, key)

\* C1: in every target file written, the value under the i-th extracted key
\* (the locale tag apart, which takes the language code) is the element at
\* offset i mod 50 of the response accepted for batch i div 50 of that target.
C1_Alignment ==
  \A k \in 1..Len(writeLog) :
    LET w == writeLog[k]
        at == StringPositions
    IN /\ w.path \in DOMAIN fs
       /\ IsLastWrite(k) => fs[w.path] = w.doc
       /\ \A i \in 0..(Len(originalKeys) - 1) :
            originalKeys[i + 1] # LOCALE =>
              Lookup(w.doc, originalKeys[i + 1], at[i + 1])
                = AcceptedResponse(w, (i \div BATCH_SIZE) + 1)[(i % BATCH_SIZE) + 1]

\* a target of several batches was written after its last batch was retried
C1_Witness ==
  /\ pc = "done" /\ Len(batches) >= 2 /\ retryCount > 0
  /\ Len(writeLog) >= 1 /\ Len(originalKeys) > BATCH_SIZE

\* C2: the k-th wait of a batch is 2000 ms x k, each retry is preceded by
\* one wait, the backoff in progress is 2000 ms x (failed attempts so far),
\* and a batch accepted at its n-th attempt has waited n - 1 times, the value
\* returned being that attempt's response (fails twice: 2000, 4000).
C2_BackoffSchedule ==
  /\ \A k \in 1..Len(waits) : waits[k] = 2000 * k
  /\ pc = "call" => Len(waits) = calls - 1 /\ retryCount = calls - 1
  /\ pc = "backoff" => Len(waits) = calls /\ timer = 2000 * calls
  /\ (pc \in {"batchPause", "langPause", "done"} /\ calls > 0) =>
       /\ Len(waits) = calls - 1
       /\ timer \in {0, BATCH_PAUSE, LANG_PAUSE}
       /\ calls = 3 => waits = <<2000, 4000>>
       /\ LET b == Len(accepted)
              n == Len(allTranslations)
          IN SubSeq(allTranslations, n - BatchLength(b) + 1, n)
               = ResponseElems(accepted[b], targetLangCodes[ti + 1], b, BatchLength(b))

\* a batch was accepted at its third attempt, after waits of 2000 and 4000 ms
C2_Witness ==
  pc = "batchPause" /\ calls = 3 /\ waits = <<2000, 4000>> /\ Len(accepted) = 1

\* C3: a batch is called at most 4 times; a batch that failed every time has
\* waited 2000, 4000 and 6000 ms, and the run then stops with no call in
\* flight on an error that carries the batch's 1-based ordinal, the number
\* of batches and the cause of the last failed attempt.
C3_Exhaustion ==
  /\ calls <= MAX_RETRIES + 1
  /\ Len(waits) <= MAX_RETRIES
  /\ Exhausted =>
       /\ pc = "exit" /\ request = NoRequest /\ timer = 0
       /\ waits = <<2000, 4000, 6000>>
       /\ calls = 4
       /\ error.batchNumber = bi + 1
       /\ error.batchNumber = Len(accepted) + 1
       /\ error.totalBatches = Len(chunkArray(originalValues, BATCH_SIZE))
       /\ error.cause = lastFailure
       /\ error.cause # NoCause

\* the second batch of a document exhausted its retries on a shape error
C3_Witness ==
  /\ pc = "exit" /\ Exhausted /\ error.batchNumber = 2 /\ error.totalBatches >= 2
  /\ error.cause.kind = "shape"

\* C4: every write of a target file follows the acceptance of all the
\* batches of that target, each target is written at most once, a target in
\* progress or stopped on an exhausted batch has no file, and no file holds
\* a source string where a translation belongs.
C4_NoPartialOutput ==
  /\ \A k \in 1..Len(writeLog) :
       /\ writeLog[k].ti = k - 1
       /\ Len(writeLog[k].accepted) = Len(chunkArray(originalValues, BATCH_SIZE))
  /\ (pc \in {"call", "backoff", "batchPause"} \/ Exhausted) =>
       /\ Len(writeLog) = ti
       /\ NotWritten(ti)
  /\ DiskAsWritten
  /\ \A f \in DOMAIN fs :
       LET at == StringPositions
       IN \A i \in 1..Len(originalKeys) :
            originalKeys[i] # LOCALE =>
              Lookup(fs[f], originalKeys[i], at[i]).by = "provider"

\* a target stopped on an exhausted batch after an earlier batch of it was accepted
C4_Witness ==
  /\ pc = "exit" /\ Exhausted /\ Len(accepted) >= 1 /\ allTranslations # <<>>
  /\ PathOf(targetFiles[ti + 1]) \notin DOMAIN fs

\* what C5 says of every state
C5_State ==
  /\ \A k \in 1..Len(writeLog) :
       /\ writeLog[k].ti = k - 1
       /\ writeLog[k].file = targetFiles[k]
       /\ writeLog[k].lang = targetLangCodes[k]
  /\ Extracted => called \subseteq 0..ti /\ Len(writeLog) \in {ti, ti + 1}
  /\ Exhausted =>
       /\ pc = "exit" /\ exitCode = 1
       /\ Len(writeLog) = ti
       /\ \A t \in ti..(Len(targetFiles) - 1) : NotWritten(t)
       /\ \A t \in (ti + 1)..(Len(targetFiles) - 1) : t \notin called
       /\ DiskAsWritten

\* C5: the targets are processed in list order; the first target with an
\* exhausted batch stops the run with exit code 1, the later targets have
\* neither a provider call nor a file, the earlier files stay as written,
\* and nothing is called or written once the run has exited.
C5_FirstFailureAborts ==
  /\ [] C5_State
  /\ [][pc = "exit" => (called' = called /\ fs' = fs /\ pc' = "exit")]_vars

\* the second of two targets failed after the first was written
C5_Witness ==
  /\ pc = "exit" /\ Exhausted /\ ti = 1 /\ Len(writeLog) = 1
  /\ PathOf(targetFiles[1]) \in DOMAIN fs
  /\ PathOf(targetFiles[2]) \notin DOMAIN fs

\* C6: every target file has the keys of the source in the source's order,
\* and every entry whose value is not a string has the source's value.
C6_FramePreserved ==
  \A f \in DOMAIN fs :
    /\ ObjectKeys(fs[f]) = ObjectKeys(sourceDoc)
    /\ \A i \in 1..Len(sourceDoc) :
         ~IsString(sourceDoc[i].val) => fs[f][i] = sourceDoc[i]

\* a file was written in which an entry that is not a string stands
\* unchanged between two translated strings
C6_Witness ==
  \E f \in DOMAIN fs : \E i \in 2..(Len(sourceDoc) - 1) :
    /\ ~IsString(sourceDoc[i].val)
    /\ fs[f][i] = sourceDoc[i]
    /\ fs[f][i - 1].val.by = "provider"
    /\ fs[f][i + 1].val.by = "provider"

\* a key that marks metadata: it begins with '@' and is not the locale tag
IsMetadataKey(k) == k.at >= 1 /\ k # LOCALE

\* C7: every entry with a metadata key is in every target file with the
\* source's value, and no value of such an entry is sent to the provider.
C7_MetadataUntouched ==
  /\ \A f \in DOMAIN fs :
       \A i \in 1..Len(sourceDoc) :
         IsMetadataKey(sourceDoc[i].key) =>
           Get(fs[f], sourceDoc[i].key) = sourceDoc[i].val
  /\ pc = "call" =>
       \A i \in 1..Len(sourceDoc) :
         IsMetadataKey(sourceDoc[i].key) => sourceDoc[i].val \notin Range(request.batch)

\* C8: a source with a string under '@@locale' gives every target file the
\* target's language code, trimmed (empty after a trailing comma), under
\* '@@locale'.
C8_LocaleOverride ==
  \A k \in 1..Len(writeLog) :
    (HasKey(sourceDoc, LOCALE) /\ IsString(Get(sourceDoc, LOCALE))) =>
      /\ writeLog[k].path \in DOMAIN fs
      /\ IsLastWrite(k) => fs[writeLog[k].path] = writeLog[k].doc
      /\ Get(writeLog[k].doc, LOCALE) = LangVal(targetLangCodes[k])
      /\ targetLangCodes[k] \in {<<"fr">>, <<"es">>, <<>>}

\* both targets of a source with "@@locale": "en" were written
C8_Witness ==
  /\ pc = "done" /\ Len(writeLog) = 2
  /\ HasKey(sourceDoc, LOCALE) /\ IsString(Get(sourceDoc, LOCALE))
  /\ Append(CWD, <<"b.arb">>) \in DOMAIN fs
  /\ Get(fs[Append(CWD, <<"b.arb">>)], LOCALE) = LangVal(<<"es">>)
  /\ allTranslations # <<>>

\* C9: the extracted keys are exactly the keys of the string entries other
\* than '@@locale', and the value of '@@locale' is in no batch sent.
C9_ExtractionExcludesLocale ==
  Extracted =>
    /\ \A i \in 1..Len(sourceDoc) :
         sourceDoc[i].key \in Range(originalKeys)
           <=> (IsString(sourceDoc[i].val) /\ sourceDoc[i].key # LOCALE)
    /\ (pc = "call" /\ HasKey(sourceDoc, LOCALE)) =>
         Get(sourceDoc, LOCALE) \notin Range(request.batch)

\* C10: a source with '@@locale', of whatever type, gives every target file
\* the target's language code under '@@locale'.
C10_LocaleAnyType ==
  \A k \in 1..Len(writeLog) :
    HasKey(sourceDoc, LOCALE) =>
      Get(writeLog[k].doc, LOCALE) = LangVal(targetLangCodes[k])

\* the kinds of answers that are not an array of the batch's length
BadShapes == {"short", "long"} \cup NotArrays

\* C11: no answer that is not an array of the batch's length is accepted:
\* none is among the accepted responses and none of its elements is in the
\* accumulated translations or in a file; the attempt fails with a shape
\* error on the batch's length (a TypeError when the answer is null) and is
\* followed by the backoff of any failure.
C11_ShapeValidation ==
  /\ \A b \in 1..Len(accepted) : accepted[b] \notin BadShapes
  /\ \A j \in 1..Len(allTranslations) : allTranslations[j].resp \notin BadShapes
  /\ Len(allTranslations) = Min(Len(accepted) * BATCH_SIZE, Len(originalValues))
  /\ \A f \in DOMAIN fs : \A p \in 1..Len(fs[f]) : fs[f][p].val.resp \notin BadShapes
  /\ lastFailure.kind = "shape" => lastFailure.expected = BatchLength(bi + 1)
  /\ lastFailure.kind \in {"shape", "typeError"} =>
       /\ pc = "backoff" => (timer = RETRY_DELAY * calls /\ calls <= MAX_RETRIES)
       /\ pc = "exit" =>
            \/ Exhausted /\ calls = MAX_RETRIES + 1
            \/ error.kind = "writeFailed" /\ Len(accepted) = Len(batches)

\* an answer of 49 elements to a batch of 50 strings was rejected and the
\* batch waits for its retry
C11_Witness ==
  /\ pc = "backoff" /\ lastFailure = Cause("shape", 50, 49)
  /\ Len(accepted) = bi /\ timer = RETRY_DELAY * calls

\* C12: an accepted response is an array of strings only, and every
\* extracted key other than '@@locale' holds a string in every target file.
C12_StringsOnly ==
  /\ \A j \in 1..Len(allTranslations) : IsString(allTranslations[j])
  /\ \A f \in DOMAIN fs :
       LET at == StringPositions
       IN \A i \in 1..Len(originalKeys) :
            originalKeys[i] # LOCALE =>
              IsString(Lookup(fs[f], originalKeys[i], at[i]))

\* the number of comma-separated items of an input text
ItemCount(text) == Cardinality({i \in 1..Len(text) : text[i] = ","}) + 1

\* the source file exists and both lists are given, of different lengths
CountsDiffer ==
  /\ sourceFile.present /\ sourceFile.exists
  /\ targetFileInput.present /\ targetLangCodeInput.present
  /\ ItemCount(targetFileInput.text) # ItemCount(targetLangCodeInput.text)

\* nothing was translated: no provider call, no wait, no file
NothingDone ==
  /\ called = {} /\ calls = 0 /\ request = NoRequest
  /\ waits = <<>> /\ timer = 0
  /\ fs = <<>> /\ writeLog = <<>>

\* C13: with lists of different lengths the run, once started, has exited
\* with code 1 on the mismatch error that carries both counts, and nothing
\* was translated; the mismatch error arises in no other case.
C13_CountMismatch ==
  /\ (CountsDiffer /\ pc # "start") =>
       /\ pc = "exit" /\ exitCode = 1
       /\ error = Error("mismatch", ItemCount(targetFileInput.text),
                        ItemCount(targetLangCodeInput.text))
       /\ NothingDone
  /\ error.kind = "mismatch" => CountsDiffer

\* one language code was given for two target files
C13_Witness ==
  /\ pc = "exit" /\ error = Error("mismatch", 2, 1) /\ exitCode = 1
  /\ sourceDoc # <<>>

\* one of the four inputs is not given
InputAbsent ==
  \/ ~sourceFile.present \/ ~targetFileInput.present
  \/ ~targetLangCodeInput.present \/ ~apiKey.present

\* C14: with one of the four inputs absent the run, once started, has
\* exited with code 1 on an error and nothing was translated.
C14_InputsRequired ==
  (InputAbsent /\ pc # "start") =>
    /\ pc = "exit" /\ exitCode = 1 /\ error # NoError
    /\ NothingDone

\* C15 as stated: the waits of a batch grow by a constant factor above 1.
C15_ExponentialBackoff ==
  /\ \A k \in 2..Len(waits) : waits[k] > waits[k - 1]
  /\ \A k \in 3..Len(waits) : waits[k] * waits[k - 2] = waits[k - 1] * waits[k - 1]

\* C15 as amended: the waits of a batch grow by a constant step: the first
\* is RETRY_DELAY, each later one is the one before plus RETRY_DELAY, and
\* the backoff in progress is the last of them.
C15_LinearBackoff ==
  /\ waits # <<>> => waits[1] = RETRY_DELAY
  /\ \A k \in 2..Len(waits) : waits[k] - waits[k - 1] = RETRY_DELAY
  /\ pc = "backoff" => (waits # <<>> /\ timer = waits[Len(waits)])

\* the third backoff of a batch is in progress
C15_Witness ==
  pc = "backoff" /\ Len(waits) = 3 /\ timer = 3 * RETRY_DELAY

\* C16: after extraction the parsed document is the source document and the
\* extracted keys and values are the source's string entries, at every
\* later moment; a batch in flight is a slice of source strings; and every
\* value of a target's file that is not the source's own is a language code
\* or a provider answer of that very target.
C16_SourceNeverMutated ==
  /\ Extracted =>
       LET at == StringPositions
       IN /\ arbData = sourceDoc
          /\ Len(originalKeys) = Len(at) /\ Len(originalValues) = Len(at)
          /\ \A i \in 1..Len(at) :
               /\ originalKeys[i] = sourceDoc[at[i]].key
               /\ originalValues[i] = sourceDoc[at[i]].val
  /\ pc = "call" =>
       request.batch = SubSeq(originalValues, bi * BATCH_SIZE + 1,
                              Min((bi + 1) * BATCH_SIZE, Len(originalValues)))
  /\ \A k \in 1..Len(writeLog) :
       LET doc == writeLog[k].doc
       IN /\ IsLastWrite(k) => fs[writeLog[k].path] = doc
          /\ \A p \in 1..Len(doc) :
               \/ doc[p] = sourceDoc[p]
               \/ /\ doc[p].val.by \in {"provider", "code"}
                  /\ doc[p].val.lang = targetLangCodes[k]

\* the second batch of the second target is in flight after the first
\* target was written
C16_Witness ==
  /\ pc = "call" /\ ti = 1 /\ bi = 1 /\ Len(writeLog) = 1
  /\ \E p \in 1..Len(fs[PathOf(targetFiles[1])]) :
       fs[PathOf(targetFiles[1])][p].val.by = "provider"

\* the batches joined in order
RECURSIVE Flatten(_)
Flatten(chunks) ==
  IF chunks = <<>> THEN <<>> ELSE Head(chunks) \o Flatten(Tail(chunks))

\* C17: chunkArray(values, 50) returns batches whose concatenation in order
\* is values; every batch has between 1 and 50 elements and every batch but
\* the last has exactly 50; 120 values give batches of 50, 50 and 20; no
\* values give no batch.
C17_ChunkArray ==
  pc = "chunked" =>
    /\ Flatten(batches) = originalValues
    /\ \A k \in 1..Len(batches) :
         /\ Len(batches[k]) >= 1 /\ Len(batches[k]) <= BATCH_SIZE
         /\ k < Len(batches) => Len(batches[k]) = BATCH_SIZE
    /\ Len(originalValues) = 120 =>
         [k \in 1..Len(batches) |-> Len(batches[k])] = <<50, 50, 20>>
    /\ originalValues = <<>> => batches = <<>>

\* 120 values were chunked into three batches, the last one short
C17_Witness ==
  /\ pc = "chunked" /\ Len(originalValues) = 120
  /\ Len(batches) = 3 /\ Len(batches[3]) = 20
  /\ batches[3][20] = originalValues[120]

\* a provider call is in flight exactly while the run is suspended in it,
\* and then every earlier batch of the target was accepted and appended and
\* every earlier target was written
C18_State ==
  /\ request # NoRequest <=> pc = "call"
  /\ pc = "call" =>
       /\ request.batchNumber = bi + 1
       /\ request.batch = batches[bi + 1]
       /\ request.lang = targetLangCodes[ti + 1]
       /\ Len(accepted) = bi
       /\ Len(allTranslations) = bi * BATCH_SIZE
       /\ Len(writeLog) = ti
       /\ \A j \in 1..ti : /\ writeLog[j].file = targetFiles[j]
                           /\ writeLog[j].path \in DOMAIN fs

\* a step that starts a provider call
C18_Step ==
  pc' = "call" =>
    /\ pc \in {"start", "backoff", "batchPause", "langPause"}
    /\ request = NoRequest
    /\ retryCount' > 0 <=> pc = "backoff"
    /\ pc = "backoff" =>
         /\ ti' = ti /\ bi' = bi /\ retryCount' = retryCount + 1
         /\ lastFailure # NoCause /\ accepted' = accepted
         /\ timer = RETRY_DELAY * retryCount' /\ timer' = 0
    /\ (bi' > 0 /\ retryCount' = 0) <=> pc = "batchPause"
    /\ pc = "batchPause" =>
         /\ ti' = ti /\ bi' = bi + 1
         /\ Len(accepted) = bi' /\ accepted' = accepted
         /\ Len(allTranslations) = bi' * BATCH_SIZE
         /\ allTranslations' = allTranslations
         /\ timer = BATCH_PAUSE
    /\ (ti' > 0 /\ bi' = 0 /\ retryCount' = 0) <=> pc = "langPause"
    /\ pc = "langPause" =>
         /\ ti' = ti + 1
         /\ Len(writeLog) = ti' /\ writeLog[ti'].file = targetFiles[ti']
         /\ writeLog[ti'].path \in DOMAIN fs /\ fs' = fs
         /\ timer = LANG_PAUSE
    /\ pc = "start" => ti' = 0

\* C18: at most one provider call is in flight; the first call of a batch
\* starts only after the batch before it was accepted and appended; a retry
\* starts only after the attempt before it failed and its wait is over; the
\* first call of a language starts only after the file of the language
\* before it was written.
C18_Sequential == [] C18_State /\ [][C18_Step]_vars

\* a retry of the second batch of the second target is in flight
C18_Witness ==
  /\ pc = "call" /\ ti = 1 /\ bi = 1 /\ retryCount = 1
  /\ Len(writeLog) = 1 /\ Len(accepted) = 1

\* C19: the run pauses 500 ms between two consecutive batches of a target
\* and nowhere else: a pause is in progress only after batch i was appended
\* and while batch i+1 exists and was not called, every pause lasts 500 ms
\* whatever number of retries the batch needed, as many pauses as earlier
\* batches precede a call, and a target written from n accepted batches had
\* n - 1 pauses, none after its last batch.
C19_InterBatchPause ==
  /\ \A k \in 1..Len(pauses) : pauses[k] = BATCH_PAUSE
  /\ pc = "batchPause" =>
       /\ timer = BATCH_PAUSE
       /\ request = NoRequest
       /\ Len(accepted) = bi + 1
       /\ Len(allTranslations) = (bi + 1) * BATCH_SIZE
       /\ bi + 1 < Len(batches)
       /\ Len(pauses) = bi + 1
  /\ timer = BATCH_PAUSE => pc = "batchPause"
  /\ pc \in {"call", "backoff"} => Len(pauses) = bi
  /\ \A k \in 1..Len(writeLog) :
       LET w == writeLog[k]
       IN /\ \A j \in 1..Len(w.pauses) : w.pauses[j] = BATCH_PAUSE
          /\ Len(w.accepted) = Len(batches)
          /\ Len(w.pauses) = IF batches = <<>> THEN 0 ELSE Len(batches) - 1
  /\ pc \in {"langPause", "done"} => timer # BATCH_PAUSE /\ pauses = writeLog[Len(writeLog)].pauses

\* the pause after a first batch that was accepted at its third attempt
C19_Witness ==
  /\ pc = "batchPause" /\ bi = 0 /\ retryCount = 2 /\ timer = BATCH_PAUSE
  /\ pauses = <<BATCH_PAUSE>> /\ Len(batches) = 2

\* the source document has no string value
NoStrings == \A p \in 1..Len(sourceDoc) : ~IsString(sourceDoc[p].val)

\* the run is over
Terminated == pc \in {"done", "exit"}

\* the provider calls the run may still start: MAX_RETRIES + 1 for every
\* batch that is not settled yet, less the calls started for the batch at hand
CallsLeft ==
  LET B == Len(batches)
      T == Len(targetFiles)
      later == (T - ti - 1) * B
  IN CASE pc \in {"call", "backoff"} ->
            (MAX_RETRIES + 1) * (later + (B - bi)) - calls
       [] pc = "batchPause" -> (MAX_RETRIES + 1) * (later + (B - bi - 1))
       [] pc = "langPause" -> (MAX_RETRIES + 1) * later
       [] OTHER -> 0

\* the step that follows where the run is suspended has what it reads
CanProceed ==
  /\ pc \in {"start", "call", "backoff", "batchPause", "langPause", "done", "exit"}
  /\ pc = "call" => Responses(request) # {}
  /\ pc = "backoff" => bi + 1 <= Len(batches)
  /\ pc = "batchPause" => bi + 2 <= Len(batches)
  /\ pc = "langPause" => ti + 2 <= Len(targetFiles)

C21_State ==
  /\ CanProceed
  /\ calls <= MAX_RETRIES + 1 /\ retryCount <= MAX_RETRIES
  /\ pc = "call" => calls = retryCount + 1
  /\ CallsLeft >= 0
  /\ CallsLeft <= (MAX_RETRIES + 1) * Len(batches) * Len(targetFiles)
  /\ pc = "done" =>
       /\ exitCode = 0
       /\ Len(writeLog) = Len(targetFiles)
       /\ \A k \in 1..Len(targetFiles) : /\ writeLog[k].file = targetFiles[k]
                                         /\ writeLog[k].path \in DOMAIN fs
  /\ pc = "exit" => exitCode = 1 /\ error # NoError

C21_Step ==
  /\ ~Terminated
  /\ Proceeds /\ <<pc, ti>>' # <<pc, ti>>
  /\ pc # "start" => CallsLeft' <= CallsLeft
  /\ pc' = "call" =>
       /\ calls' <= MAX_RETRIES + 1
       /\ IF pc = "start"
          THEN CallsLeft' = (MAX_RETRIES + 1) * Len(batches') * Len(targetFiles') - 1
          ELSE CallsLeft' = CallsLeft - 1
       /\ IF retryCount' = 0
          THEN \/ pc = "start"
               \/ ti' > ti
               \/ ti' = ti /\ bi' > bi /\ Len(accepted) = bi'
          ELSE /\ ti' = ti /\ bi' = bi
               /\ Len(accepted) = bi /\ ~Exhausted
               /\ retryCount < MAX_RETRIES

\* C21: when every provider call comes back, every run ends, with every
\* target written and exit code 0 or with exit code 1; a batch is called at
\* most MAX_RETRIES + 1 = 4 times, every call uses up one of the
\* 4 * batches * targets calls a run has, and a call is never for a batch
\* that was accepted or a batch whose retries were exhausted.
C21_Termination == <>Terminated /\ [] C21_State /\ [][C21_Step]_vars

\* a run that ended with two targets written, the last batch of the second
\* one accepted at its fourth attempt
C21_Witness ==
  /\ pc = "done" /\ exitCode = 0 /\ Len(writeLog) = 2
  /\ Len(batches) = 2 /\ bi = 1
  /\ calls = MAX_RETRIES + 1 /\ retryCount = MAX_RETRIES

====
